---- MODULE Spec2Model ----
(***************************************************************************)
(* Model of backend/agents/car_agent.py: the coroutine main() that runs    *)
(* the Car Sensors agent, the Car Trader agent and the Gas Station agent   *)
(* one after the other, parses each agent's final output with              *)
(* must_be_json and runs the three sanity checks on the quote.             *)
(*                                                                         *)
(* The three agents are opaque: what Runner.run returns is an input of the *)
(* model, drawn from the sets SensorsTexts, TraderTexts and StationTexts.  *)
(*                                                                         *)
(* Numbers.  A Python float is modelled as [c, x]: c = "fin" with the      *)
(* value x, or c = "nan" (json.loads accepts the constant NaN and float()  *)
(* accepts the string "nan").  Money is counted in units of 1e-7 USD, so   *)
(* that the tolerance 1e-6 of the math check is 10 units; liters and       *)
(* minutes are whole numbers.  Rounding of binary floating point is not    *)
(* modelled.                                                               *)
(***************************************************************************)
EXTENDS Integers, Sequences, FiniteSets, TLC

VARIABLES
    pc,             \* position of main()
    inflight,       \* the agents whose Runner.run call has not returned yet
    calls,          \* every Runner.run call made so far: [stage, input]
    stdout,         \* what print() has written so far
    sensors_json,   \* sensors_out.final_output
    sensors_event,  \* must_be_json("Sensors Agent", sensors_json)
    trader_json,    \* trader_out.final_output
    trader_event,   \* must_be_json("Trader Agent", trader_json)
    station_json,   \* station_out.final_output
    quote,          \* must_be_json("Station Agent", station_json)
    liters,         \* float(quote["liters"])
    ppl,            \* float(quote["price_per_liter_usd"])
    total,          \* float(quote["total_usd"])
    expected,       \* liters * ppl
    exc,            \* the exception that ended main(), if any
    exit_status     \* the status the process exits with (-1: still running)

vars == << pc, inflight, calls, stdout, sensors_json, sensors_event,
           trader_json, trader_event, station_json, quote, liters, ppl,
           total, expected, exc, exit_status >>

----------------------------------------------------------------------------
(* Bounds and constants *)

\* A stage output of the model differs from the well-formed one in at most
\* this many fields.
MaxDeviations == 2

\* STABLECOIN = "USDC"
STABLECOIN == "USDC"

\* 1 USD in money units (1e-7 USD each)
USD == 10 * 1000 * 1000

\* 1e-6 (the tolerance of the math check), in money units
Tolerance == 10

----------------------------------------------------------------------------
(* JSON values as Python holds them after json.loads *)

\* A value stored under a key of a dict.  t = "absent": the key is not there.
Atom(t, n, s) == [t |-> t, n |-> n, s |-> s]
JAbsent  == Atom("absent", 0, "")
JNull    == Atom("null", 0, "")      \* None
JNaN     == Atom("nan", 0, "")       \* the JSON constant NaN: float('nan')
JNum(n)  == Atom("num", n, "")
JStr(s)  == Atom("str", 0, s)

Keys == { "event", "severity", "fuel_level_percent", "fuel_type", "liters",
          "max_price_per_liter_usd", "delivery_deadline_minutes",
          "policy_severity", "policy_priority", "payment_token",
          "price_per_liter_usd", "total_usd", "payment_address",
          "payment_memo" }

NoFields == [key \in Keys |-> JAbsent]

\* What json.loads returns: a dict (k = "object") with its keys, or another
\* JSON value (here an array).  The nested object "policy" is held flat, as
\* the keys policy_severity and policy_priority.
Obj(f)   == [k |-> "object", f |-> f]
JArray   == [k |-> "array", f |-> NoFields]
NoValue  == [k |-> "unset", f |-> NoFields]

\* A dict holding the keys of the record given.
Dict(given) ==
    Obj([key \in Keys |-> IF key \in DOMAIN given THEN given[key] ELSE JAbsent])

\* A text: prose (not JSON) or JSON text that json.loads turns into v.
\* fmt tells the texts apart that parse to the same value: "agent" is a
\* final_output as the agent wrote it, "dumps" is what json.dumps wrote.
Text(kind, fmt, v) == [kind |-> kind, fmt |-> fmt, v |-> v]
Prose      == Text("prose", "agent", NoValue)
AgentJson(v) == Text("json", "agent", v)
NoText     == Text("none", "none", NoValue)

\* A Python float
Fin(x)   == [c |-> "fin", x |-> x]
NaN      == [c |-> "nan", x |-> 0]
NoFloat  == [c |-> "unset", x |-> 0]

\* An exception that leaves main(): its type, for SystemExit the message
\* (which check wrote it), and for must_be_json the label and the text s it
\* puts into the message.
Exc(type, msg, label, raw) ==
    [type |-> type, msg |-> msg, label |-> label, raw |-> raw]
NoExc == Exc("none", "", "", NoText)

----------------------------------------------------------------------------
(* Python's operations on these values *)

IsDict(v) == v.k = "object"

\* json.loads(s) raises JSONDecodeError exactly when s is not JSON text.
Loads(s) == s.v
LoadsRaises(s) == s.kind # "json"

\* json.dumps(v, ensure_ascii=False): JSON text that parses back to v.
Dumps(v) == Text("json", "dumps", v)

\* d[key]: TypeError when d is no dict (a list indexed by a str), KeyError
\* when the key is not there.
SubscriptRaises(d, key) ==
    IF ~IsDict(d) THEN "TypeError"
    ELSE IF d.f[key].t = "absent" THEN "KeyError"
    ELSE "none"
Subscript(d, key) == d.f[key]

\* d.get(key): None when the key is not there; a list has no attribute get.
GetRaises(d) == IF IsDict(d) THEN "none" ELSE "AttributeError"
Get(d, key) == IF d.f[key].t = "absent" THEN JNull ELSE d.f[key]

\* float() of the strings the model uses: "40" and "nan" are numbers.
NumericStrings == { "40", "nan" }
ParseFloat(s) == IF s = "nan" THEN NaN ELSE Fin(40)

\* float(a): a number as it is, a str parsed (ValueError when it is no
\* number), TypeError for None.
FloatRaises(a) ==
    CASE a.t \in { "num", "nan" } -> "none"
      [] a.t = "str" -> IF a.s \in NumericStrings THEN "none" ELSE "ValueError"
      [] OTHER -> "TypeError"
Float(a) ==
    CASE a.t = "num" -> Fin(a.n)
      [] a.t = "nan" -> NaN
      [] a.t = "str" -> ParseFloat(a.s)
      [] OTHER -> NoFloat

\* Arithmetic and comparison of floats: NaN propagates, and every ordered
\* comparison with NaN is False.
FMul(a, b) == IF a.c = "fin" /\ b.c = "fin" THEN Fin(a.x * b.x) ELSE NaN
FSub(a, b) == IF a.c = "fin" /\ b.c = "fin" THEN Fin(a.x - b.x) ELSE NaN
FAbs(a)    == IF a.c = "fin" THEN Fin(IF a.x < 0 THEN -a.x ELSE a.x) ELSE NaN
FGt(a, b)  == a.c = "fin" /\ b.c = "fin" /\ a.x > b.x
FLe(a, b)  == a.c = "fin" /\ b.c = "fin" /\ a.x <= b.x

\* bool(a): None, "" and 0 are false.
Truthy(a) ==
    CASE a.t \in { "null", "absent" } -> FALSE
      [] a.t = "str" -> a.s # ""
      [] a.t = "num" -> a.n # 0
      [] OTHER -> TRUE

----------------------------------------------------------------------------
(* What the agents may answer.  Each agent has a well-formed answer (the   *)
(* event its instructions describe); the answers of the model are that     *)
(* event with some of its fields replaced by an alternative, an array, and *)
(* prose.                                                                  *)

\* The events with the keys of D replaced by alternatives of alts.
Variants(base, alts, D) ==
    { Obj([key \in Keys |-> IF key \in D THEN g[key] ELSE base.f[key]]) :
        g \in { h \in [D -> UNION { alts[key] : key \in D }] :
                  \A key \in D : h[key] \in alts[key] } }

\* The answers that differ from base in at most n fields; an array and
\* prose count as differing in one.
Answers(base, alts, n) ==
    { AgentJson(v) :
        v \in UNION { Variants(base, alts, D) :
                        D \in { E \in SUBSET DOMAIN alts : Cardinality(E) <= n } } }
    \cup (IF n >= 1 THEN { AgentJson(JArray), Prose } ELSE {})

\* In how many fields the answer s differs from base.
Deviations(base, s) ==
    IF s.kind = "json" /\ IsDict(s.v)
    THEN Cardinality({ key \in Keys : s.v.f[key] # base.f[key] })
    ELSE 1

\* Car Sensors Agent: fuel is low, 5 percent, severity HIGH.
SensorsBase ==
    Dict([ event |-> JStr("FUEL_LOW_DETECTED"), fuel_level_percent |-> JNum(5),
           severity |-> JStr("HIGH") ])
SensorsAlts ==
    [ event |-> { JStr("FUEL_OK"), JStr("FUEL_ALERT"), JAbsent },
      fuel_level_percent |-> { JNum(50) },
      severity |-> { JStr("LOW") } ]

\* Car Trader Agent: a FUEL_REQUEST within the band of severity HIGH.
TraderBase ==
    Dict([ event |-> JStr("FUEL_REQUEST"), fuel_type |-> JStr("GASOLINE"),
           liters |-> JNum(40), max_price_per_liter_usd |-> JNum((25 * USD) \div 10),
           payment_token |-> JStr(STABLECOIN),
           delivery_deadline_minutes |-> JNum(12),
           policy_severity |-> JStr("HIGH"),
           policy_priority |-> JStr("FASTEST") ])
TraderAlts ==
    [ event |-> { JStr("NO_ACTION"), JStr("FUEL_OFFER"), JAbsent },
      liters |-> { JNum(5) },
      max_price_per_liter_usd |-> { JNum(3 * USD) },
      delivery_deadline_minutes |-> { JNum(30) },
      payment_token |-> { JStr("BRZ") },
      policy_severity |-> { JStr("LOW"), JStr("CRITICAL"), JAbsent },
      policy_priority |-> { JStr("CHEAPEST") } ]

\* Gas Station Agent: 40 liters at 2.5 USD, 100 USD in total.
StationBase ==
    Dict([ event |-> JStr("FUEL_QUOTE"), fuel_type |-> JStr("GASOLINE"),
           liters |-> JNum(40), price_per_liter_usd |-> JNum((25 * USD) \div 10),
           total_usd |-> JNum(100 * USD), payment_token |-> JStr(STABLECOIN),
           payment_address |-> JStr("0xA11CE"),
           payment_memo |-> JStr("car-001:INV-1234") ])
StationAlts ==
    [ event |-> { JStr("FUEL_OFFER"), JAbsent },
      fuel_type |-> { JStr("DIESEL") },
      liters |-> { JNum(35), JStr("40"), JStr("forty"), JNull, JAbsent },
      price_per_liter_usd |-> { JAbsent },
      total_usd |-> { JNum(100 * USD + 5), JNum(100 * USD + USD \div 100),
                      JNum(100 * USD - USD \div 100), JNaN, JAbsent },
      payment_token |-> { JStr("BRZ"), JAbsent },
      payment_address |-> { JStr(""), JAbsent },
      payment_memo |-> { JStr(""), JAbsent } ]

SensorsTexts == Answers(SensorsBase, SensorsAlts, MaxDeviations)
TraderTexts  == Answers(TraderBase, TraderAlts, MaxDeviations)
StationTexts == Answers(StationBase, StationAlts, MaxDeviations)

\* The policy rules of the trader agent's instructions: for each severity
\* the inclusive ranges of liters, max_price_per_liter_usd and
\* delivery_deadline_minutes, and the priority.
Severities == { "HIGH", "MEDIUM", "LOW" }
BandFor(sev) ==
    CASE sev = "HIGH" ->
           [ liters |-> << 35, 45 >>, price |-> << (22 * USD) \div 10, (28 * USD) \div 10 >>,
             deadline |-> << 10, 15 >>, priority |-> "FASTEST" ]
      [] sev = "MEDIUM" ->
           [ liters |-> << 20, 30 >>, price |-> << (18 * USD) \div 10, (24 * USD) \div 10 >>,
             deadline |-> << 15, 25 >>, priority |-> "BALANCED" ]
      [] sev = "LOW" ->
           [ liters |-> << 10, 20 >>, price |-> << (14 * USD) \div 10, (20 * USD) \div 10 >>,
             deadline |-> << 25, 40 >>, priority |-> "CHEAPEST" ]

\* sensors_input: "check sensors now; timestamp=<now_iso_utc()>"
SensorsInput == Text("prose", "trigger", NoValue)

----------------------------------------------------------------------------
(* must_be_json and the steps of main() *)

\* (mutant of must_be_json) a text that is not JSON yields an empty dict.
must_be_json_lenient(label, s) ==
    IF LoadsRaises(s)
    THEN [ raised |-> FALSE, value |-> Obj(NoFields), exc |-> NoExc ]
    ELSE [ raised |-> FALSE, value |-> Loads(s), exc |-> NoExc ]

\* must_be_json(label, s): json.loads(s), or SystemExit with the label and
\* the text s in its message.
must_be_json(label, s) ==
    IF LoadsRaises(s)
    THEN [ raised |-> TRUE, value |-> NoValue,
           exc |-> Exc("SystemExit", "did not output valid JSON", label, s) ]
    ELSE [ raised |-> FALSE, value |-> Loads(s), exc |-> NoExc ]

\* A line written by print(): a fixed line, or an agent's raw output.
Line(str)  == [line |-> str, text |-> NoText]
Raw(s)     == [line |-> "", text |-> s]

\* await Runner.run(agent, input): the call is issued.
RunnerRun(stage, input) ==
    /\ inflight' = inflight \cup { stage }
    /\ calls' = Append(calls, [stage |-> stage, input |-> input])

\* An exception leaves main(): asyncio.run re-raises it and the process
\* exits with status 1 (SystemExit with a message, or a traceback).
Raise(e) ==
    /\ exc' = e
    /\ pc' = "exited"
    /\ exit_status' = 1

\* main() returns: asyncio.run returns and the process exits with status 0.
Return ==
    /\ pc' = "exited"
    /\ exit_status' = 0
    /\ exc' = exc

Init ==
    /\ pc = "start"
    /\ inflight = {}
    /\ calls = << >>
    /\ stdout = << >>
    /\ sensors_json = NoText
    /\ sensors_event = NoValue
    /\ trader_json = NoText
    /\ trader_event = NoValue
    /\ station_json = NoText
    /\ quote = NoValue
    /\ liters = NoFloat
    /\ ppl = NoFloat
    /\ total = NoFloat
    /\ expected = NoFloat
    /\ exc = NoExc
    /\ exit_status = -1

\* Step 1: Runner.run(sensors_agent, sensors_input) is awaited.
CallSensors ==
    /\ pc = "start"
    /\ RunnerRun("sensors", SensorsInput)
    /\ pc' = "sensors_await"
    /\ UNCHANGED << stdout, sensors_json, sensors_event, trader_json,
                    trader_event, station_json, quote, liters, ppl, total,
                    expected, exc, exit_status >>

\* The sensors agent answers: final_output is kept and printed.
SensorsReturn ==
    /\ pc = "sensors_await"
    /\ \E s \in SensorsTexts :
         /\ sensors_json' = s
         /\ stdout' = stdout \o << Line("--- Sensors -> Trader (event) ---"), Raw(s) >>
    /\ inflight' = inflight \ { "sensors" }
    /\ pc' = "sensors_parse"
    /\ UNCHANGED << calls, sensors_event, trader_json, trader_event,
                    station_json, quote, liters, ppl, total, expected, exc,
                    exit_status >>

\* (mutant of ParseSensors) the sensors agent is asked again when its answer
\* is not JSON.
ParseSensorsRetry ==
    /\ pc = "sensors_parse"
    /\ LET r == must_be_json("Sensors Agent", sensors_json) IN
         IF r.raised
         THEN pc' = "start" /\ UNCHANGED << sensors_event, exc, exit_status >>
         ELSE /\ sensors_event' = r.value
              /\ pc' = "trader_call"
              /\ UNCHANGED << exc, exit_status >>
    /\ UNCHANGED << inflight, calls, stdout, sensors_json, trader_json,
                    trader_event, station_json, quote, liters, ppl, total,
                    expected >>

\* sensors_event = must_be_json("Sensors Agent", sensors_json)
ParseSensors ==
    /\ pc = "sensors_parse"
    /\ LET r == must_be_json("Sensors Agent", sensors_json) IN
         IF r.raised
         THEN Raise(r.exc) /\ UNCHANGED sensors_event
         ELSE /\ sensors_event' = r.value
              /\ pc' = "trader_call"
              /\ UNCHANGED << exc, exit_status >>
    /\ UNCHANGED << inflight, calls, stdout, sensors_json, trader_json,
                    trader_event, station_json, quote, liters, ppl, total,
                    expected >>

\* (mutant of CallTrader) the trader is called as soon as the sensors agent
\* has answered, before must_be_json has looked at the answer.
CallTraderUnparsed ==
    /\ pc = "sensors_parse"
    /\ RunnerRun("trader", Dumps(sensors_event))
    /\ pc' = "trader_await"
    /\ UNCHANGED << stdout, sensors_json, sensors_event, trader_json,
                    trader_event, station_json, quote, liters, ppl, total,
                    expected, exc, exit_status >>

\* Step 2: trader_in = json.dumps(sensors_event); Runner.run(trader_agent,
\* trader_in) is awaited.
CallTrader ==
    /\ pc = "trader_call"
    /\ RunnerRun("trader", Dumps(sensors_event))
    /\ pc' = "trader_await"
    /\ UNCHANGED << stdout, sensors_json, sensors_event, trader_json,
                    trader_event, station_json, quote, liters, ppl, total,
                    expected, exc, exit_status >>

\* The trader agent answers: final_output is kept and printed.
TraderReturn ==
    /\ pc = "trader_await"
    /\ \E s \in TraderTexts :
         /\ Deviations(SensorsBase, sensors_json) + Deviations(TraderBase, s)
              <= MaxDeviations
         /\ trader_json' = s
         /\ stdout' = stdout \o
              << Line("--- Trader -> Station (request or no action) ---"), Raw(s) >>
    /\ inflight' = inflight \ { "trader" }
    /\ pc' = "trader_parse"
    /\ UNCHANGED << calls, sensors_json, sensors_event, trader_event,
                    station_json, quote, liters, ppl, total, expected, exc,
                    exit_status >>

\* trader_event = must_be_json("Trader Agent", trader_json)
ParseTrader ==
    /\ pc = "trader_parse"
    /\ LET r == must_be_json("Trader Agent", trader_json) IN
         IF r.raised
         THEN Raise(r.exc) /\ UNCHANGED trader_event
         ELSE /\ trader_event' = r.value
              /\ pc' = "trader_branch"
              /\ UNCHANGED << exc, exit_status >>
    /\ UNCHANGED << inflight, calls, stdout, sensors_json, sensors_event,
                    trader_json, station_json, quote, liters, ppl, total,
                    expected >>

\* (mutant of BranchTrader) the return after the print is missing.
BranchTraderNoReturn ==
    /\ pc = "trader_branch"
    /\ IF GetRaises(trader_event) # "none"
       THEN Raise(Exc(GetRaises(trader_event), "", "", NoText)) /\ UNCHANGED stdout
       ELSE /\ stdout' = IF Get(trader_event, "event") = JStr("NO_ACTION")
                         THEN Append(stdout, Line("No action needed (fuel OK)."))
                         ELSE stdout
            /\ pc' = "station_call"
            /\ UNCHANGED << exc, exit_status >>
    /\ UNCHANGED << inflight, calls, sensors_json, sensors_event, trader_json,
                    trader_event, station_json, quote, liters, ppl, total,
                    expected >>

\* (mutant of BranchTrader) a trader event that is not NO_ACTION starts
\* the pipeline over instead of going on to the station.
BranchTraderRestart ==
    /\ pc = "trader_branch"
    /\ IF GetRaises(trader_event) # "none"
       THEN Raise(Exc(GetRaises(trader_event), "", "", NoText)) /\ UNCHANGED stdout
       ELSE IF Get(trader_event, "event") = JStr("NO_ACTION")
       THEN Return /\ stdout' = Append(stdout, Line("No action needed (fuel OK)."))
       ELSE /\ pc' = "start"
            /\ UNCHANGED << stdout, exc, exit_status >>
    /\ UNCHANGED << inflight, calls, sensors_json, sensors_event, trader_json,
                    trader_event, station_json, quote, liters, ppl, total,
                    expected >>

\* (mutant of BranchTrader) the branch looks at the sensors event: main()
\* returns when the sensors reported FUEL_OK, whatever the trader answered.
BranchTraderOnFuelOk ==
    /\ pc = "trader_branch"
    /\ IF GetRaises(trader_event) # "none"
       THEN Raise(Exc(GetRaises(trader_event), "", "", NoText)) /\ UNCHANGED stdout
       ELSE IF IsDict(sensors_event) /\ Get(sensors_event, "event") = JStr("FUEL_OK")
       THEN Return /\ stdout' = Append(stdout, Line("No action needed (fuel OK)."))
       ELSE /\ pc' = "station_call"
            /\ UNCHANGED << stdout, exc, exit_status >>
    /\ UNCHANGED << inflight, calls, sensors_json, sensors_event, trader_json,
                    trader_event, station_json, quote, liters, ppl, total,
                    expected >>

\* if trader_event.get("event") == "NO_ACTION": print, return
BranchTrader ==
    /\ pc = "trader_branch"
    /\ IF GetRaises(trader_event) # "none"
       THEN Raise(Exc(GetRaises(trader_event), "", "", NoText)) /\ UNCHANGED stdout
       ELSE IF Get(trader_event, "event") = JStr("NO_ACTION")
       THEN Return /\ stdout' = Append(stdout, Line("No action needed (fuel OK)."))
       ELSE /\ pc' = "station_call"
            /\ UNCHANGED << stdout, exc, exit_status >>
    /\ UNCHANGED << inflight, calls, sensors_json, sensors_event, trader_json,
                    trader_event, station_json, quote, liters, ppl, total,
                    expected >>

\* (mutant of CallStation) the request is normalised before it is sent: its
\* payment_token is overwritten with the constant.
CallStationNormalised ==
    /\ pc = "station_call"
    /\ RunnerRun("station",
                 Dumps(Obj([trader_event.f EXCEPT !["payment_token"] = JStr(STABLECOIN)])))
    /\ pc' = "station_await"
    /\ UNCHANGED << stdout, sensors_json, sensors_event, trader_json,
                    trader_event, station_json, quote, liters, ppl, total,
                    expected, exc, exit_status >>

\* Step 3: station_in = json.dumps(trader_event); Runner.run(station_agent,
\* station_in) is awaited.
CallStation ==
    /\ pc = "station_call"
    /\ RunnerRun("station", Dumps(trader_event))
    /\ pc' = "station_await"
    /\ UNCHANGED << stdout, sensors_json, sensors_event, trader_json,
                    trader_event, station_json, quote, liters, ppl, total,
                    expected, exc, exit_status >>

\* The station agent answers: final_output is kept and printed.
StationReturn ==
    /\ pc = "station_await"
    /\ \E s \in StationTexts :
         /\ Deviations(SensorsBase, sensors_json)
              + Deviations(TraderBase, trader_json)
              + Deviations(StationBase, s) <= MaxDeviations
         /\ station_json' = s
         /\ stdout' = stdout \o
              << Line("--- Station -> Trader/Car (quote) ---"), Raw(s) >>
    /\ inflight' = inflight \ { "station" }
    /\ pc' = "station_parse"
    /\ UNCHANGED << calls, sensors_json, sensors_event, trader_json,
                    trader_event, quote, liters, ppl, total, expected, exc,
                    exit_status >>

\* quote = must_be_json("Station Agent", station_json)
ParseStation ==
    /\ pc = "station_parse"
    /\ LET r == must_be_json("Station Agent", station_json) IN
         IF r.raised
         THEN Raise(r.exc) /\ UNCHANGED quote
         ELSE /\ quote' = r.value
              /\ pc' = "math_check"
              /\ UNCHANGED << exc, exit_status >>
    /\ UNCHANGED << inflight, calls, stdout, sensors_json, sensors_event,
                    trader_json, trader_event, station_json, liters, ppl,
                    total, expected >>

\* float(d[key]): the exception it raises ("none": it returns), its value.
FloatOfRaises(d, key) ==
    IF SubscriptRaises(d, key) # "none" THEN SubscriptRaises(d, key)
    ELSE FloatRaises(Subscript(d, key))
FloatOf(d, key) == Float(Subscript(d, key))

\* abs(total - expected) > 1e-6
MathFails(t, e) == FGt(FAbs(FSub(t, e)), Fin(Tolerance))

\* (mutant of TokenMismatch) the comparison is == instead of !=.
TokenMismatchInverted(q) == Get(q, "payment_token") = JStr(STABLECOIN)

\* quote.get("payment_token") != STABLECOIN
TokenMismatch(q) == Get(q, "payment_token") # JStr(STABLECOIN)

\* (mutant of PaymentMissing) the two tests are joined by and instead of or.
PaymentMissingBoth(q) ==
    ~Truthy(Get(q, "payment_address")) /\ ~Truthy(Get(q, "payment_memo"))

\* not quote.get("payment_address") or not quote.get("payment_memo")
PaymentMissing(q) ==
    ~Truthy(Get(q, "payment_address")) \/ ~Truthy(Get(q, "payment_memo"))

\* Sanity checks, the math check: the three conversions, expected, and the
\* comparison.  A conversion that raises ends main() with that exception
\* (the key is kept as its message); the assignments before it have happened.
MathCheck ==
    /\ pc = "math_check"
    /\ LET e1 == FloatOfRaises(quote, "liters")
           e2 == FloatOfRaises(quote, "price_per_liter_usd")
           e3 == FloatOfRaises(quote, "total_usd")
           l  == FloatOf(quote, "liters")
           p  == FloatOf(quote, "price_per_liter_usd")
           t  == FloatOf(quote, "total_usd")
       IN
         /\ liters' = IF e1 = "none" THEN l ELSE liters
         /\ ppl' = IF e1 = "none" /\ e2 = "none" THEN p ELSE ppl
         /\ total' = IF e1 = "none" /\ e2 = "none" /\ e3 = "none" THEN t ELSE total
         /\ expected' = IF e1 = "none" /\ e2 = "none" /\ e3 = "none"
                        THEN FMul(l, p) ELSE expected
         /\ IF e1 # "none" THEN Raise(Exc(e1, "liters", "", NoText))
            ELSE IF e2 # "none" THEN Raise(Exc(e2, "price_per_liter_usd", "", NoText))
            ELSE IF e3 # "none" THEN Raise(Exc(e3, "total_usd", "", NoText))
            ELSE IF MathFails(t, FMul(l, p))
            THEN Raise(Exc("SystemExit", "Math check failed", "", NoText))
            ELSE /\ pc' = "token_check"
                 /\ UNCHANGED << exc, exit_status >>
    /\ UNCHANGED << inflight, calls, stdout, sensors_json, sensors_event,
                    trader_json, trader_event, station_json, quote >>

\* (mutant of TokenCheck) the payment fields are tested before the token.
TokenCheckAfterPayment ==
    /\ pc = "token_check"
    /\ IF PaymentMissing(quote)
       THEN Raise(Exc("SystemExit",
                      "Missing payment_address or payment_memo in quote",
                      "", NoText))
       ELSE IF TokenMismatch(quote)
       THEN Raise(Exc("SystemExit", "Payment token mismatch", "", NoText))
       ELSE /\ pc' = "payment_check"
            /\ UNCHANGED << exc, exit_status >>
    /\ UNCHANGED << inflight, calls, stdout, sensors_json, sensors_event,
                    trader_json, trader_event, station_json, quote, liters,
                    ppl, total, expected >>

\* Sanity checks, the payment token.  (quote is a dict here: the math check
\* has subscripted it.)
TokenCheck ==
    /\ pc = "token_check"
    /\ IF TokenMismatch(quote)
       THEN Raise(Exc("SystemExit", "Payment token mismatch", "", NoText))
       ELSE /\ pc' = "payment_check"
            /\ UNCHANGED << exc, exit_status >>
    /\ UNCHANGED << inflight, calls, stdout, sensors_json, sensors_event,
                    trader_json, trader_event, station_json, quote, liters,
                    ppl, total, expected >>

\* Sanity checks, the payment instructions; then the last print and the end
\* of main().
PaymentCheck ==
    /\ pc = "payment_check"
    /\ IF PaymentMissing(quote)
       THEN /\ Raise(Exc("SystemExit",
                         "Missing payment_address or payment_memo in quote",
                         "", NoText))
            /\ UNCHANGED stdout
       ELSE /\ Return
            /\ stdout' = Append(stdout, Line("Flow complete"))
    /\ UNCHANGED << inflight, calls, sensors_json, sensors_event,
                    trader_json, trader_event, station_json, quote, liters,
                    ppl, total, expected >>

\* Runner.run raises instead of returning: nothing in main() catches it.
StageFails ==
    /\ pc \in { "sensors_await", "trader_await", "station_await" }
    /\ \E stage \in inflight :
         /\ inflight' = inflight \ { stage }
         /\ Raise(Exc("AgentsException", "", stage, NoText))
    /\ UNCHANGED << calls, stdout, sensors_json, sensors_event, trader_json,
                    trader_event, station_json, quote, liters, ppl, total,
                    expected >>

\* (mutant of Cancel) the cancellation is swallowed at the await and main()
\* returns as if it had nothing left to do.
CancelReturns ==
    /\ pc \in { "sensors_await", "trader_await", "station_await" }
    /\ inflight' = {}
    /\ Return
    /\ UNCHANGED << calls, stdout, sensors_json, sensors_event, trader_json,
                    trader_event, station_json, quote, liters, ppl, total,
                    expected >>

\* The run is cancelled (SIGINT) while main() awaits an agent: asyncio.run
\* cancels the task, CancelledError leaves main() at the await, and
\* asyncio.run raises KeyboardInterrupt (exit status 130).
Cancel ==
    /\ pc \in { "sensors_await", "trader_await", "station_await" }
    /\ inflight' = {}
    /\ exc' = Exc("CancelledError", "", "", NoText)
    /\ pc' = "exited"
    /\ exit_status' = 130
    /\ UNCHANGED << calls, stdout, sensors_json, sensors_event, trader_json,
                    trader_event, station_json, quote, liters, ppl, total,
                    expected >>

Next ==
    \/ CallSensors
    \/ SensorsReturn
    \/ ParseSensors
    \/ CallTrader
    \/ TraderReturn
    \/ ParseTrader
    \/ BranchTrader
    \/ CallStation
    \/ StationReturn
    \/ ParseStation
    \/ MathCheck
    \/ TokenCheck
    \/ PaymentCheck
    \/ StageFails
    \/ Cancel

Spec == Init /\ [][Next]_vars

\* The interpreter keeps running main(), and every Runner.run call returns
\* or raises: a step that can be taken is taken.
FairSpec == Spec /\ WF_vars(Next)

----------------------------------------------------------------------------
(* The states of the pipeline, read off the position of main() *)

\* AWAIT_SENSOR, AWAIT_DECISION, AWAIT_QUOTE while main() runs; after it
\* ends, TERMINAL_FAILED when an exception ended it, else the terminal state
\* of the return taken.
PipelineState ==
    CASE pc \in { "start", "sensors_await", "sensors_parse" } -> "AWAIT_SENSOR"
      [] pc \in { "trader_call", "trader_await", "trader_parse", "trader_branch" }
           -> "AWAIT_DECISION"
      [] pc \in { "station_call", "station_await", "station_parse", "math_check",
                  "token_check", "payment_check" } -> "AWAIT_QUOTE"
      [] pc = "exited" /\ exc # NoExc -> "TERMINAL_FAILED"
      [] pc = "exited" /\ exc = NoExc /\ quote = NoValue -> "TERMINAL_NO_ACTION"
      [] OTHER -> "TERMINAL_COMPLETE"

----------------------------------------------------------------------------
(* Properties *)

\* Whether Runner.run has been called for the stage; the stages called, in
\* the order of the calls.
Called(stage) == \E i \in DOMAIN calls : calls[i].stage = stage
StagesCalled == [i \in DOMAIN calls |-> calls[i].stage]

\* Whether must_be_json has returned the stage's event.
SensorsParsed == sensors_event # NoValue
TraderParsed  == trader_event # NoValue
QuoteParsed   == quote # NoValue

\* The sanity checks have not been started: no conversion has been made and
\* no check has raised.
NoSanityCheckRun ==
    /\ liters = NoFloat /\ ppl = NoFloat /\ total = NoFloat /\ expected = NoFloat
    /\ exc.msg \notin { "Math check failed", "Payment token mismatch",
                        "Missing payment_address or payment_memo in quote" }
    /\ exc.type \notin { "KeyError", "TypeError", "ValueError" }

\* C1: the stages are called strictly one after the other: the trader is
\* called only after must_be_json has returned the sensors event, the station
\* only after must_be_json has returned the trader event and the NO_ACTION
\* branch has been passed, and at most one call is in flight.
C1_Sequential ==
    /\ Cardinality(inflight) <= 1
    /\ Called("trader") => SensorsParsed /\ "sensors" \notin inflight
    /\ Called("station") =>
         /\ SensorsParsed /\ TraderParsed
         /\ inflight \subseteq { "station" }
         /\ IsDict(trader_event)
         /\ Get(trader_event, "event") # JStr("NO_ACTION")

\* C1 witness: the station call is in flight, both earlier events parsed.
C1_Witness ==
    /\ inflight = { "station" }
    /\ SensorsParsed /\ TraderParsed

\* C2: once the branch on a trader event with event NO_ACTION has been
\* taken, the run has ended in TERMINAL_NO_ACTION with exit status 0, the
\* station was never called and no sanity check was run.
C2_NoAction ==
    ( /\ TraderParsed /\ IsDict(trader_event)
      /\ Get(trader_event, "event") = JStr("NO_ACTION")
      /\ pc # "trader_branch" )
    => /\ pc = "exited"
       /\ PipelineState = "TERMINAL_NO_ACTION"
       /\ exc = NoExc /\ exit_status = 0
       /\ stdout[Len(stdout)] = Line("No action needed (fuel OK).")
       /\ ~Called("station") /\ station_json = NoText /\ quote = NoValue
       /\ NoSanityCheckRun

\* C2 witness: a run that has ended on a NO_ACTION trader event.
C2_Witness ==
    /\ pc = "exited"
    /\ TraderParsed /\ IsDict(trader_event)
    /\ Get(trader_event, "event") = JStr("NO_ACTION")

\* What a run looks like that must_be_json has ended for the text s of the
\* agent with the label: SystemExit with label and text, exit status 1.
MalformedJsonExit(label, s) ==
    /\ pc = "exited"
    /\ exc = Exc("SystemExit", "did not output valid JSON", label, s)
    /\ exit_status = 1
    /\ PipelineState = "TERMINAL_FAILED"

\* C7: for each stage, once must_be_json has run on an answer that is not
\* JSON, the run has failed there with the label and the answer itself in
\* the message, and no later stage has been called (nor a sanity check run).
C7_MalformedJson ==
    /\ (sensors_json.kind = "prose" /\ pc # "sensors_parse")
         => /\ MalformedJsonExit("Sensors Agent", sensors_json)
            /\ ~Called("trader") /\ ~Called("station") /\ NoSanityCheckRun
    /\ (trader_json.kind = "prose" /\ pc # "trader_parse")
         => /\ MalformedJsonExit("Trader Agent", trader_json)
            /\ ~Called("station") /\ NoSanityCheckRun
    /\ (station_json.kind = "prose" /\ pc # "station_parse")
         => /\ MalformedJsonExit("Station Agent", station_json)
            /\ NoSanityCheckRun

\* C7 witness: the trader answered prose and must_be_json has run on it.
C7_Witness == trader_json.kind = "prose" /\ pc = "exited"

\* The stages are called in the order sensors, trader, station, each at
\* most once.
CallsForward ==
    \E n \in 0..3 : StagesCalled = SubSeq(<< "sensors", "trader", "station" >>, 1, n)

\* C10: each stage is called at most once and only in the forward order,
\* and once an exception has ended the run no stage is called again.
C10_OnceForward ==
    /\ [](CallsForward)
    /\ [][exc # NoExc => calls' = calls /\ inflight' = inflight]_vars

\* C10 witness: a run that failed after all three stages had been called.
C10_Witness == pc = "exited" /\ exc # NoExc /\ Len(calls) = 3

\* A number within the inclusive range.
InRange(a, range) == a.t = "num" /\ range[1] <= a.n /\ a.n <= range[2]

\* The request e keeps the policy rules: its severity is one of the three,
\* its liters, price and deadline lie in that severity's ranges and its
\* priority is that severity's.
BandConforms(e) ==
    /\ e.f["policy_severity"].t = "str"
    /\ e.f["policy_severity"].s \in Severities
    /\ LET band == BandFor(e.f["policy_severity"].s) IN
         /\ InRange(e.f["liters"], band.liters)
         /\ InRange(e.f["max_price_per_liter_usd"], band.price)
         /\ InRange(e.f["delivery_deadline_minutes"], band.deadline)
         /\ e.f["policy_priority"] = JStr(band.priority)

IsFuelRequest(e) == IsDict(e) /\ e.f["event"] = JStr("FUEL_REQUEST")

\* C3: the station is called for a FUEL_REQUEST only if the request keeps
\* the policy rules of its severity, and a FUEL_REQUEST that breaks them has
\* sent the run to TERMINAL_FAILED once the branch on it has been taken.
C3_PolicyGate ==
    /\ (Called("station") /\ IsFuelRequest(trader_event))
         => BandConforms(trader_event)
    /\ ( /\ TraderParsed /\ IsFuelRequest(trader_event)
         /\ ~BandConforms(trader_event)
         /\ pc # "trader_branch" )
         => PipelineState = "TERMINAL_FAILED"

\* abs(total_usd - liters * price_per_liter_usd) <= 1e-6, of the floats
\* the math check has computed.
WithinTolerance == FLe(FAbs(FSub(total, expected)), Fin(Tolerance))
OffByMore       == FGt(FAbs(FSub(total, expected)), Fin(Tolerance))

\* The math check has computed its floats.
MathComputed == total # NoFloat /\ expected # NoFloat

MathExit == Exc("SystemExit", "Math check failed", "", NoText)

\* C4: a run reaches TERMINAL_COMPLETE only if the quote is within the
\* tolerance; a quote off by more fails with the math failure and a non-zero
\* exit status; a quote within the tolerance never fails the math check.
C4_MathGate ==
    /\ PipelineState = "TERMINAL_COMPLETE" => MathComputed /\ WithinTolerance
    /\ (MathComputed /\ OffByMore /\ pc # "math_check")
         => pc = "exited" /\ exc = MathExit /\ exit_status # 0
    /\ (MathComputed /\ WithinTolerance) => exc # MathExit

\* The quote lacks a numeric liters, price_per_liter_usd or total_usd, or
\* is no object at all.
QuoteIllTyped ==
    \/ ~IsDict(quote)
    \/ \E key \in { "liters", "price_per_liter_usd", "total_usd" } :
         quote.f[key].t \notin { "num", "nan" }

TokenExit == Exc("SystemExit", "Payment token mismatch", "", NoText)

\* The quote is a dict whose payment_token is not the constant (or is not
\* there).
TokenDiffers ==
    QuoteParsed /\ IsDict(quote) /\ quote.f["payment_token"] # JStr(STABLECOIN)

\* The exceptions a conversion float(quote[key]) raises.
ConversionExit == exc.type \in { "KeyError", "TypeError", "ValueError" }

\* The conversions have been made and the math check has let the quote pass.
MathPassed == MathComputed /\ ~MathFails(total, expected)

\* C5 as stated: a run ended on a parsed quote whose token differs has
\* failed with the token-mismatch error and with no other.  (Stated for the
\* quotes whose liters, price and total are numbers, the reading that asks
\* least of the program.)
C5_TokenOnly ==
    (pc = "exited" /\ TokenDiffers /\ ~QuoteIllTyped)
    => PipelineState = "TERMINAL_FAILED" /\ exc = TokenExit

\* C5 as amended: a run ended on a parsed quote whose token differs has
\* failed, never with the invalid-JSON error: with the token-mismatch error
\* when the conversions and the math check before it have passed, else with
\* the exception of the conversion or the math failure.
C5_TokenMismatch ==
    (pc = "exited" /\ TokenDiffers)
    => /\ PipelineState = "TERMINAL_FAILED"
       /\ exit_status = 1
       /\ exc.msg # "did not output valid JSON"
       /\ IF MathPassed THEN exc = TokenExit
          ELSE exc = MathExit \/ ConversionExit

\* C5 witness: a run ended by the token check.
C5_Witness == pc = "exited" /\ TokenDiffers /\ exc = TokenExit

PaymentExit ==
    Exc("SystemExit", "Missing payment_address or payment_memo in quote", "", NoText)

\* The value is there and is neither null nor the empty string.
PresentNonEmpty(a) == a.t \notin { "absent", "null" } /\ a # JStr("")

PaymentFieldsPresent ==
    /\ PresentNonEmpty(quote.f["payment_address"])
    /\ PresentNonEmpty(quote.f["payment_memo"])

\* C6 as stated: a run completes only with both payment fields, and a run
\* ended on a parsed quote lacking one has failed with the
\* missing-payment-fields reason.  (The second part stated for the quotes
\* whose liters, price and total are numbers, the reading that asks least
\* of the program.)
C6_PaymentOnly ==
    /\ PipelineState = "TERMINAL_COMPLETE" => PaymentFieldsPresent
    /\ (pc = "exited" /\ QuoteParsed /\ ~QuoteIllTyped /\ ~PaymentFieldsPresent)
         => PipelineState = "TERMINAL_FAILED" /\ exc = PaymentExit

\* C6 as amended: the reason is the missing-payment-fields one when the
\* conversions, the math check and the token check before it have passed,
\* else it is the reason of the first of those that failed.
C6_PaymentFields ==
    /\ PipelineState = "TERMINAL_COMPLETE" => PaymentFieldsPresent
    /\ (pc = "exited" /\ QuoteParsed /\ IsDict(quote) /\ ~PaymentFieldsPresent)
         => /\ PipelineState = "TERMINAL_FAILED"
            /\ exit_status = 1
            /\ IF ~MathPassed THEN exc = MathExit \/ ConversionExit
               ELSE IF TokenDiffers THEN exc = TokenExit
               ELSE exc = PaymentExit

\* C6 witness: a run ended by the payment-fields check.
C6_Witness ==
    /\ pc = "exited" /\ QuoteParsed /\ ~PaymentFieldsPresent
    /\ exc = PaymentExit

\* The event of a parsed answer is one of the kinds.
EventIn(e, kinds) == IsDict(e) /\ e.f["event"].t = "str" /\ e.f["event"].s \in kinds

\* C8: the trader is called only on a sensors event of kind FUEL_OK or
\* FUEL_LOW_DETECTED, the station only on a trader event of kind
\* FUEL_REQUEST, a run completes only on a quote of kind FUEL_QUOTE, and a
\* run that has gone past a trader event of a kind other than NO_ACTION and
\* FUEL_REQUEST has failed.
C8_EventKinds ==
    /\ Called("trader") => EventIn(sensors_event, { "FUEL_OK", "FUEL_LOW_DETECTED" })
    /\ Called("station") => EventIn(trader_event, { "FUEL_REQUEST" })
    /\ (TraderParsed /\ ~EventIn(trader_event, { "NO_ACTION", "FUEL_REQUEST" })
          /\ pc # "trader_branch")
         => PipelineState = "TERMINAL_FAILED"
    /\ PipelineState = "TERMINAL_COMPLETE" => EventIn(quote, { "FUEL_QUOTE" })

\* C9: a run ended on a parsed trader answer that is no object, or on a
\* parsed quote that is ill-typed, has failed through a raised SystemExit
\* (the only errors the program raises itself), not through another
\* exception and not by completing.
C9_TaggedErrors ==
    /\ (pc = "exited" /\ TraderParsed /\ ~IsDict(trader_event))
         => PipelineState = "TERMINAL_FAILED" /\ exc.type = "SystemExit"
    /\ (pc = "exited" /\ QuoteParsed /\ QuoteIllTyped)
         => PipelineState = "TERMINAL_FAILED" /\ exc.type = "SystemExit"

Terminal == { "TERMINAL_NO_ACTION", "TERMINAL_COMPLETE", "TERMINAL_FAILED" }

\* The place of a state in the order AWAIT_SENSOR, AWAIT_DECISION,
\* AWAIT_QUOTE, terminal.
Rank(state) ==
    CASE state = "AWAIT_SENSOR" -> 1
      [] state = "AWAIT_DECISION" -> 2
      [] state = "AWAIT_QUOTE" -> 3
      [] OTHER -> 4

\* A step of the pipeline keeps the state, goes to the next state of the
\* order or to a terminal state, and never leaves a terminal state.
ForwardStep ==
    /\ PipelineState \in Terminal => PipelineState' = PipelineState
    /\ PipelineState \notin Terminal =>
         \/ PipelineState' = PipelineState
         \/ Rank(PipelineState') = Rank(PipelineState) + 1
         \/ PipelineState' \in Terminal

\* No step changes anything once a terminal state is reached.
TerminalAbsorbs == PipelineState \in Terminal => (pc' = pc /\ UNCHANGED vars)

\* While a call is awaited (one position in each of the three non-terminal
\* states) a step to TERMINAL_FAILED can be taken.
FailureAtHand ==
    pc \in { "sensors_await", "trader_await", "station_await" }
    => ENABLED (Next /\ PipelineState' = "TERMINAL_FAILED")

\* C11: with every call returning or raising, every run reaches a terminal
\* state; a terminal state is never left and nothing changes in it; the
\* states are passed in the order AWAIT_SENSOR, AWAIT_DECISION, AWAIT_QUOTE;
\* and in each non-terminal state there is a position from which
\* TERMINAL_FAILED is one step away.
C11_Terminates ==
    /\ <>(PipelineState \in Terminal)
    /\ [][ForwardStep]_vars
    /\ [][TerminalAbsorbs]_vars
    /\ [](FailureAtHand)

\* C11 witness: a run that has passed all three states and completed.
C11_Witness == PipelineState = "TERMINAL_COMPLETE" /\ Len(calls) = 3

\* A validation or consistency failure has happened in the run: an answer
\* that is not JSON, an event of a wrong kind, an ill-typed quote, a request
\* that breaks the policy rules, or a quote that fails the math, token or
\* payment-fields check.
ValidationFailure ==
    \/ "prose" \in { sensors_json.kind, trader_json.kind, station_json.kind }
    \/ SensorsParsed /\ ~EventIn(sensors_event, { "FUEL_OK", "FUEL_LOW_DETECTED" })
    \/ TraderParsed /\ ~EventIn(trader_event, { "NO_ACTION", "FUEL_REQUEST" })
    \/ TraderParsed /\ IsFuelRequest(trader_event) /\ ~BandConforms(trader_event)
    \/ QuoteParsed /\ ~EventIn(quote, { "FUEL_QUOTE" })
    \/ QuoteParsed /\ QuoteIllTyped
    \/ MathComputed /\ OffByMore
    \/ TokenDiffers
    \/ QuoteParsed /\ IsDict(quote) /\ ~PaymentFieldsPresent

\* C12: when the run has ended, the exit status is 0 exactly in
\* TERMINAL_NO_ACTION and TERMINAL_COMPLETE, and after a validation or
\* consistency failure it is not 0 and an exception carries the diagnosis.
C12_ExitStatus ==
    pc = "exited" =>
      /\ exit_status = 0 <=>
           PipelineState \in { "TERMINAL_NO_ACTION", "TERMINAL_COMPLETE" }
      /\ ValidationFailure => exit_status # 0 /\ exc # NoExc

\* C13: in every run that reaches TERMINAL_COMPLETE the quote's liters and
\* fuel_type equal those of the FUEL_REQUEST that was sent to the station.
C13_QuoteMatchesRequest ==
    PipelineState = "TERMINAL_COMPLETE" =>
      /\ quote.f["liters"] = trader_event.f["liters"]
      /\ quote.f["fuel_type"] = trader_event.f["fuel_type"]

\* C14: in every run that reaches TERMINAL_COMPLETE both the request's and
\* the quote's payment_token equal the one settlement-token constant.
C14_OneToken ==
    PipelineState = "TERMINAL_COMPLETE" =>
      /\ trader_event.f["payment_token"] = JStr(STABLECOIN)
      /\ quote.f["payment_token"] = JStr(STABLECOIN)

\* The sensors event has been parsed and its event is FUEL_OK.
SensorsFuelOk == SensorsParsed /\ EventIn(sensors_event, { "FUEL_OK" })

C16_UnknownSeverity ==
    LET known == /\ trader_event.f["policy_severity"].t = "str"
                 /\ trader_event.f["policy_severity"].s \in Severities
    IN  /\ (Called("station") /\ IsFuelRequest(trader_event)) => known
        /\ ( /\ TraderParsed /\ IsFuelRequest(trader_event) /\ ~known
             /\ pc # "trader_branch" )
             => PipelineState = "TERMINAL_FAILED" /\ ~Called("station")

\* The positions at which a stage call is in flight.
Awaiting == { "sensors_await", "trader_await", "station_await" }

CancelledExit == Exc("CancelledError", "", "", NoText)

\* The answer of the stage called last has not been received.
LastCallUnanswered ==
    CASE Len(calls) = 1 -> sensors_json = NoText
      [] Len(calls) = 2 -> trader_json = NoText
      [] Len(calls) = 3 -> station_json = NoText
      [] OTHER -> FALSE

\* A cancelled run: ended in TERMINAL_FAILED with the cancellation as its
\* reason and a non-zero exit status, no call left in flight, the call that
\* was in flight unanswered, and neither closing line printed.
CancelledRun ==
    exc = CancelledExit
    => /\ pc = "exited"
       /\ PipelineState = "TERMINAL_FAILED"
       /\ exit_status = 130
       /\ inflight = {}
       /\ CallsForward /\ LastCallUnanswered
       /\ \A i \in DOMAIN stdout :
            stdout[i].line \notin { "No action needed (fuel OK).", "Flow complete" }

\* A step that ends the run while a stage call is in flight is a failure of
\* that call or the cancellation: it ends in TERMINAL_FAILED, calls nothing
\* and keeps the events parsed so far.
AwaitEnded ==
    (pc \in Awaiting /\ pc' = "exited")
    => /\ exc'.type \in { "CancelledError", "AgentsException" }
       /\ exit_status' # 0
       /\ PipelineState' = "TERMINAL_FAILED"
       /\ calls' = calls /\ inflight' = {}
       /\ UNCHANGED << sensors_event, trader_event, quote, stdout >>

\* After the cancellation nothing happens any more.
CancelledStays ==
    exc = CancelledExit => (pc' = pc /\ UNCHANGED vars)

\* C17: a run cancelled while a stage call is in flight, at any of the three
\* stages, ends in TERMINAL_FAILED with the cancellation as its reason; no
\* later stage is called and the run never counts as TERMINAL_NO_ACTION or
\* TERMINAL_COMPLETE.
C17_Cancelled ==
    /\ [](CancelledRun)
    /\ [][AwaitEnded]_vars
    /\ [][CancelledStays]_vars

\* C17 witness: a run cancelled while the trader call was in flight.
C17_Witness == exc = CancelledExit /\ Len(calls) = 2 /\ SensorsParsed

\* C18: every sensors event FUEL_LOW_DETECTED the trader has been called
\* with has the severity of its fuel level: HIGH exactly below 10 percent,
\* MEDIUM exactly from 10 to 25, LOW exactly above 25.
C18_SeverityThresholds ==
    (Called("trader") /\ EventIn(sensors_event, { "FUEL_LOW_DETECTED" }))
    => LET level == sensors_event.f["fuel_level_percent"]
           sev   == sensors_event.f["severity"]
       IN  /\ level.t = "num" /\ sev.t = "str"
           /\ sev.s = "HIGH" <=> level.n < 10
           /\ sev.s = "MEDIUM" <=> (10 <= level.n /\ level.n <= 25)
           /\ sev.s = "LOW" <=> level.n > 25

\* The input of the i-th call is JSON text that parses to exactly the event,
\* and the event is exactly what the answer of the stage before parsed to.
SerializationOf(i, event, answer) ==
    /\ calls[i].input = Dumps(event)
    /\ ~LoadsRaises(calls[i].input)
    /\ Loads(calls[i].input) = event
    /\ ~LoadsRaises(answer) /\ event = Loads(answer)

ForwardedExactly ==
    /\ Called("trader") =>
         calls[2].stage = "trader" /\ SerializationOf(2, sensors_event, sensors_json)
    /\ Called("station") =>
         calls[3].stage = "station" /\ SerializationOf(3, trader_event, trader_json)

\* An answer received, an event parsed and a call made are never changed by
\* a later step.
NeverMutated ==
    /\ sensors_json # NoText => sensors_json' = sensors_json
    /\ trader_json # NoText => trader_json' = trader_json
    /\ station_json # NoText => station_json' = station_json
    /\ SensorsParsed => sensors_event' = sensors_event
    /\ TraderParsed => trader_event' = trader_event
    /\ QuoteParsed => quote' = quote
    /\ Len(calls') >= Len(calls) /\ SubSeq(calls', 1, Len(calls)) = calls

\* C19: the trader's input is the serialization of exactly the parsed
\* sensors event and the station's input that of exactly the parsed trader
\* event, no field added, dropped or changed, and no event, answer or input
\* is changed after it has been created.
C19_ForwardedUnchanged ==
    /\ [](ForwardedExactly)
    /\ [][NeverMutated]_vars

\* C19 witness: the station has been handed a request whose payment_token
\* is not the constant, as the trader wrote it.
C19_Witness ==
    /\ Len(calls) = 3 /\ pc = "station_await"
    /\ calls[3].input = Dumps(trader_event)
    /\ trader_event.f["payment_token"] # JStr(STABLECOIN)

\* The three reasons the sanity checks give.
CheckReasons == { MathExit, TokenExit, PaymentExit }

\* The reason a run that has gone through the sanity checks has ended with:
\* that of the first check, in the order math, token, payment fields, whose
\* test came out as a failure, and none when no test did.
FirstFailedCheck ==
    IF OffByMore THEN MathExit
    ELSE IF TokenDiffers THEN TokenExit
    ELSE IF ~PaymentFieldsPresent THEN PaymentExit
    ELSE NoExc

\* C20: the sanity checks run in the order math, token, payment fields: the
\* token check is reached only past the math check and the payment-fields
\* check only past both, a run ended in the checks has the reason of the
\* first check that failed and of no other, and it has failed exactly when
\* it has a reason.
C20_CheckOrder ==
    /\ pc = "token_check" => MathPassed /\ exc = NoExc
    /\ pc = "payment_check" => MathPassed /\ ~TokenDiffers /\ exc = NoExc
    /\ (pc = "exited" /\ MathComputed) =>
         /\ exc = FirstFailedCheck
         /\ exc \in CheckReasons <=> PipelineState = "TERMINAL_FAILED"
         /\ exc = NoExc <=> PipelineState = "TERMINAL_COMPLETE"
         /\ exit_status = (IF exc = NoExc THEN 0 ELSE 1)
    /\ exc \in CheckReasons => pc = "exited" /\ MathComputed

\* C20 witness: a quote with both a wrong token and no payment address has
\* ended the run with the token reason.
C20_Witness ==
    /\ pc = "exited" /\ MathComputed
    /\ TokenDiffers /\ ~PaymentFieldsPresent
    /\ exc = TokenExit

====
